---- MODULE Spec2Model ----
(***************************************************************************)
(* ConnectionPool (github.com/vphpersson/connection_pool).                 *)
(*                                                                         *)
(* The repository holds two iterations of the same type:                   *)
(*   "connection_pool.go"  src/pkg/connection_pool/connection_pool.go      *)
(*   "part_000"            src/unnamed/part_000                            *)
(* They differ in Get (whether a new connection is also pushed on the      *)
(* list), in Put (PushBack or PushFront) and in Close (unlocked, read-only *)
(* iteration, or locked draining with a counter reset).  The variable      *)
(* `iteration` is fixed by Init and selects the code every action models,  *)
(* so a formula checked under Spec is checked against both files.          *)
(*                                                                         *)
(* Goroutines are the processes of Procs.  A goroutine holds at most one   *)
(* connection and passes to Put only the connection it got from Get.       *)
(***************************************************************************)
EXTENDS Integers, Sequences, FiniteSets

\* pool.MaxNumConnections, as set by the owner before use
MaxNumConnections == 2
\* number of connections the factory can create in one run
MaxCreated == 4

Procs == 1..(MaxNumConnections + 1)
Conns == 1..MaxCreated
\* the nil connection / the unlocked mutex / no goroutine
Nil == 0

Iterations == {"connection_pool.go", "part_000"}

VARIABLES
    iteration,             \* which source file the run executes
    connections,           \* pool.connections: the list, front first
    numActiveConnections,  \* pool.numActiveConnections
    mutex,                 \* pool.mutex: the goroutine holding it, or Nil
    waiters,               \* pool.condition: goroutines suspended in Wait
    pc,                    \* each goroutine's position
    holding,               \* the connection each caller got from Get
    putErr,                \* the err argument of the Put in progress
    cursor,                \* Close's loop variable `element`
    nextId,                \* the next connection MakeConnection creates
    isClosed,              \* connections on which Close has been called
    \* history
    waited,                \* the Get in progress has been suspended in Wait
    failed,                \* the goroutine whose Get returned an error in the
                           \* step just taken, if any
    pristine,              \* no Put, no Close and no factory failure so far
    roundTrip,             \* the connection p released with no error, while
                           \* p has since done nothing but call Get and no
                           \* other goroutine has taken a step
    discarded,             \* connections released with an error
    released,              \* connections released with no error and not
                           \* returned by Get since, oldest release first
    lenCaller              \* the goroutine whose Len returned in the step
                           \* just taken, or Nil

poolVars == <<iteration, connections, numActiveConnections, mutex, waiters,
              pc, holding, putErr, cursor, nextId, isClosed>>
histVars == <<waited, failed, pristine, roundTrip, discarded, released,
              lenCaller>>
vars == <<poolVars, histVars>>

----------------------------------------------------------------------------
(* container/list helpers *)

Range(s) == {s[i] : i \in 1..Len(s)}

PushBack(s, c) == Append(s, c)

PushFront(s, c) == <<c>> \o s

\* s without its first occurrence of c
RECURSIVE RemoveFirst(_, _)
RemoveFirst(s, c) ==
    IF s = <<>> THEN <<>>
    ELSE IF Head(s) = c THEN Tail(s)
    ELSE <<Head(s)>> \o RemoveFirst(Tail(s), c)

NoCursor == [idx |-> 0, conn |-> Nil]

\* An element pointer after the front element has been removed from the
\* list: the removed element keeps its Value and loses its list (idx 0).
ShiftCursor(cur) ==
    IF cur.idx = 0 THEN cur
    ELSE [idx |-> cur.idx - 1, conn |-> cur.conn]

----------------------------------------------------------------------------
(* New *)

Init ==
    /\ iteration \in Iterations
    /\ connections = <<>>
    /\ numActiveConnections = 0
    /\ mutex = Nil
    /\ waiters = {}
    /\ pc = [p \in Procs |-> "idle"]
    /\ holding = [p \in Procs |-> Nil]
    /\ putErr = [p \in Procs |-> FALSE]
    /\ cursor = [p \in Procs |-> NoCursor]
    /\ nextId = 1
    /\ isClosed = [c \in Conns |-> FALSE]
    /\ waited = [p \in Procs |-> FALSE]
    /\ failed = {}
    /\ pristine = TRUE
    /\ roundTrip = [p \in Procs |-> Nil]
    /\ discarded = {}
    /\ released = <<>>
    /\ lenCaller = Nil

\* roundTrip after a step of p that leaves p with v
RT(p, v) == [q \in Procs |-> IF q = p THEN v ELSE Nil]

----------------------------------------------------------------------------
(* Get *)

\* a loop condition that lets Get pass with the counter at the ceiling
WaitConditionAbove ==
    Len(connections) = 0 /\ numActiveConnections > MaxNumConnections

\* the loop condition of Get
WaitCondition ==
    Len(connections) = 0 /\ numActiveConnections >= MaxNumConnections

\* pool.mutex.Lock()
GetLock(p) ==
    /\ pc[p] = "idle"
    /\ holding[p] = Nil
    /\ mutex = Nil
    /\ mutex' = p
    /\ pc' = [pc EXCEPT ![p] = "get_loop"]
    /\ failed' = {}
    /\ lenCaller' = Nil
    /\ roundTrip' = RT(p, roundTrip[p])
    /\ UNCHANGED <<iteration, connections, numActiveConnections, waiters,
                   holding, putErr, cursor, nextId, isClosed, waited,
                   pristine, discarded, released>>

\* pool.condition.Wait(): join the notify list and unlock
GetWait(p) ==
    /\ pc[p] = "get_loop"
    /\ WaitCondition
    /\ waiters' = waiters \cup {p}
    /\ mutex' = Nil
    /\ pc' = [pc EXCEPT ![p] = "get_wait"]
    /\ waited' = [waited EXCEPT ![p] = TRUE]
    /\ roundTrip' = RT(p, roundTrip[p])
    /\ failed' = {}
    /\ lenCaller' = Nil
    /\ UNCHANGED <<iteration, connections, numActiveConnections, holding,
                   putErr, cursor, nextId, isClosed, pristine,
                   discarded, released>>

\* Wait returns: the goroutine was signalled and locks the mutex again
GetWake(p) ==
    /\ pc[p] = "get_wait"
    /\ p \notin waiters
    /\ mutex = Nil
    /\ mutex' = p
    /\ pc' = [pc EXCEPT ![p] = "get_loop"]
    /\ roundTrip' = RT(p, roundTrip[p])
    /\ failed' = {}
    /\ lenCaller' = Nil
    /\ UNCHANGED <<iteration, connections, numActiveConnections, waiters,
                   holding, putErr, cursor, nextId, isClosed, waited, pristine, discarded, released>>

\* connections.Remove(connections.Front()) and return it.  Only non-nil
\* values of type T are ever pushed, so the conversion and nil checks pass.
GetReuse(p) ==
    /\ pc[p] = "get_loop"
    /\ Len(connections) > 0
    /\ holding' = [holding EXCEPT ![p] = Head(connections)]
    /\ connections' = Tail(connections)
    /\ cursor' = [q \in Procs |-> ShiftCursor(cursor[q])]
    /\ mutex' = Nil
    /\ pc' = [pc EXCEPT ![p] = "idle"]
    /\ waited' = [waited EXCEPT ![p] = FALSE]
    /\ released' = RemoveFirst(released, Head(connections))
    /\ roundTrip' = RT(p, roundTrip[p])
    /\ failed' = {}
    /\ lenCaller' = Nil
    /\ UNCHANGED <<iteration, numActiveConnections, waiters, putErr, nextId,
                   isClosed, pristine, discarded>>

\* the list is empty and the counter is below the ceiling: the factory is
\* called, with the mutex held
GetMake(p) ==
    /\ pc[p] = "get_loop"
    /\ Len(connections) = 0
    /\ ~WaitCondition
    /\ pc' = [pc EXCEPT ![p] = "get_make"]
    /\ roundTrip' = RT(p, roundTrip[p])
    /\ failed' = {}
    /\ lenCaller' = Nil
    /\ UNCHANGED <<iteration, connections, numActiveConnections, mutex,
                   waiters, holding, putErr, cursor, nextId, isClosed,
                   waited, pristine, discarded, released>>

\* the list after Get has created connection c
ListAfterMake(c) ==
    IF iteration = "connection_pool.go"
    THEN PushBack(connections, c)
    ELSE connections

\* a Get that counts the connection before it knows the factory succeeded
CounterAfterMakeAlways(ok) == numActiveConnections + 1

\* the counter after MakeConnection has returned
CounterAfterMake(ok) ==
    IF ok THEN numActiveConnections + 1 ELSE numActiveConnections

\* MakeConnection returns: a new connection, an error, or a nil connection
GetMade(p) ==
    /\ pc[p] = "get_make"
    /\ \E outcome \in {"ok", "err", "nil"} :
        /\ outcome = "ok" => nextId <= MaxCreated
        /\ IF outcome = "ok"
           THEN /\ holding' = [holding EXCEPT ![p] = nextId]
                /\ connections' = ListAfterMake(nextId)
                /\ nextId' = nextId + 1
                /\ failed' = {}
                /\ UNCHANGED pristine
           ELSE /\ failed' = {p}
                /\ pristine' = FALSE
                /\ UNCHANGED <<holding, connections, nextId>>
        /\ numActiveConnections' = CounterAfterMake(outcome = "ok")
    /\ lenCaller' = Nil
    /\ mutex' = Nil
    /\ pc' = [pc EXCEPT ![p] = "idle"]
    /\ waited' = [waited EXCEPT ![p] = FALSE]
    /\ roundTrip' = RT(p, roundTrip[p])
    /\ UNCHANGED <<iteration, waiters, putErr, cursor, isClosed, discarded,
                   released>>

----------------------------------------------------------------------------
(* connection.Close() of the external connection *)

\* Whether a Close call on c can return nil: closing an open connection
\* succeeds or fails, closing a closed one fails ("use of closed network
\* connection").  Either way the connection is closed afterwards.
CloseOutcomes(c) == IF isClosed[c] THEN {FALSE} ELSE {TRUE, FALSE}

ClosedAfter(c) == [isClosed EXCEPT ![c] = TRUE]

----------------------------------------------------------------------------
(* Put *)

\* Put of a nil connection returns before locking
PutNil(p) ==
    /\ pc[p] = "idle"
    /\ UNCHANGED vars

\* pool.mutex.Lock(), with the caller's connection and err as arguments
PutLock(p) ==
    /\ pc[p] = "idle"
    /\ holding[p] # Nil
    /\ mutex = Nil
    /\ \E e \in BOOLEAN : putErr' = [putErr EXCEPT ![p] = e]
    /\ mutex' = p
    /\ pc' = [pc EXCEPT ![p] = "put"]
    /\ pristine' = FALSE
    /\ roundTrip' = RT(p, Nil)
    /\ failed' = {}
    /\ lenCaller' = Nil
    /\ UNCHANGED <<iteration, connections, numActiveConnections, waiters,
                   holding, cursor, nextId, isClosed, waited, discarded, released>>

\* a Put that pushes at the back in both iterations
ListAfterPutBack(c) == PushBack(connections, c)

\* the list after connection c has been released with no error
ListAfterPut(c) ==
    IF iteration = "connection_pool.go"
    THEN PushBack(connections, c)
    ELSE PushFront(connections, c)

\* the counter after a connection has been released with an error
CounterAfterDiscard == numActiveConnections - 1

\* pool.condition.Signal(): one suspended goroutine, if any, is released
Signalled ==
    IF waiters = {} THEN {{}} ELSE {waiters \ {w} : w \in waiters}

\* the body of Put, Signal and the deferred Unlock.  With an error the
\* connection is closed (what its Close returns decides only whether a
\* warning is logged) and the counter decremented.
PutBody(p) ==
    /\ pc[p] = "put"
    /\ IF putErr[p]
       THEN /\ isClosed' = ClosedAfter(holding[p])
            /\ numActiveConnections' = CounterAfterDiscard
            /\ discarded' = discarded \cup {holding[p]}
            /\ roundTrip' = RT(p, Nil)
            /\ UNCHANGED <<connections, released>>
       ELSE /\ connections' = ListAfterPut(holding[p])
            /\ released' = Append(released, holding[p])
            /\ roundTrip' = RT(p, holding[p])
            /\ UNCHANGED <<numActiveConnections, isClosed, discarded>>
    /\ waiters' \in Signalled
    /\ mutex' = Nil
    /\ pc' = [pc EXCEPT ![p] = "idle"]
    /\ holding' = [holding EXCEPT ![p] = Nil]
    /\ putErr' = [putErr EXCEPT ![p] = FALSE]
    /\ failed' = {}
    /\ lenCaller' = Nil
    /\ UNCHANGED <<iteration, cursor, nextId, waited, pristine>>

----------------------------------------------------------------------------
(* Close *)

\* part_000 locks the mutex for the whole of Close; connection_pool.go
\* reads the list without locking
CloseLocks == iteration = "part_000"

\* Close on an empty list returns nil at once
CloseEmpty(p) ==
    /\ pc[p] = "idle"
    /\ CloseLocks => mutex = Nil
    /\ Len(connections) = 0
    /\ failed' = {}
    /\ lenCaller' = Nil
    /\ pristine' = FALSE
    /\ roundTrip' = RT(p, Nil)
    /\ UNCHANGED <<poolVars, waited, discarded, released>>

\* Close on a non-empty list: element := connections.Front()
CloseBegin(p) ==
    /\ pc[p] = "idle"
    /\ CloseLocks => mutex = Nil
    /\ Len(connections) > 0
    /\ mutex' = IF CloseLocks THEN p ELSE mutex
    /\ pc' = [pc EXCEPT ![p] = "close_iter"]
    /\ cursor' = [cursor EXCEPT ![p] = [idx |-> 1, conn |-> Head(connections)]]
    /\ failed' = {}
    /\ lenCaller' = Nil
    /\ pristine' = FALSE
    /\ roundTrip' = RT(p, Nil)
    /\ UNCHANGED <<iteration, connections, numActiveConnections, waiters,
                   holding, putErr, nextId, isClosed, waited, discarded,
                   released>>

\* element.Next(): nil for an element that was removed from the list or is
\* its last one
NextCursor(cur) ==
    IF cur.idx = 0 \/ cur.idx >= Len(connections)
    THEN NoCursor
    ELSE [idx |-> cur.idx + 1, conn |-> connections[cur.idx + 1]]

\* the counter when Close has closed every element
CounterAfterClose == 0

\* one turn of the loop of Close in connection_pool.go: close the element's
\* connection, return on an error, else go to the next element; the list
\* and the counter are left as they are
CloseElemUnlocked(p) ==
    /\ pc[p] = "close_iter"
    /\ ~CloseLocks
    /\ isClosed' = ClosedAfter(cursor[p].conn)
    /\ \E ok \in CloseOutcomes(cursor[p].conn) :
        IF ok /\ NextCursor(cursor[p]) # NoCursor
        THEN /\ cursor' = [cursor EXCEPT ![p] = NextCursor(cursor[p])]
             /\ UNCHANGED pc
        ELSE /\ cursor' = [cursor EXCEPT ![p] = NoCursor]
             /\ pc' = [pc EXCEPT ![p] = "idle"]
    /\ roundTrip' = RT(p, Nil)
    /\ failed' = {}
    /\ lenCaller' = Nil
    /\ UNCHANGED <<iteration, connections, numActiveConnections, mutex,
                   waiters, holding, putErr, nextId, waited, pristine, discarded, released>>

\* one turn of the loop of Close in part_000: remove the front element and
\* close its connection; return on an error, leaving the rest of the list
\* and the counter; after the last element reset the list and the counter
CloseElemLocked(p) ==
    /\ pc[p] = "close_iter"
    /\ CloseLocks
    /\ isClosed' = ClosedAfter(Head(connections))
    /\ \E ok \in CloseOutcomes(Head(connections)) :
        IF ok /\ Tail(connections) # <<>>
        THEN /\ cursor' = [cursor EXCEPT ![p] =
                             [idx |-> 1, conn |-> Head(Tail(connections))]]
             /\ UNCHANGED <<pc, mutex, numActiveConnections>>
        ELSE /\ cursor' = [cursor EXCEPT ![p] = NoCursor]
             /\ pc' = [pc EXCEPT ![p] = "idle"]
             /\ mutex' = Nil
             /\ numActiveConnections' =
                    IF ok THEN CounterAfterClose ELSE numActiveConnections
    /\ connections' = Tail(connections)
    /\ released' = RemoveFirst(released, Head(connections))
    /\ roundTrip' = RT(p, Nil)
    /\ failed' = {}
    /\ lenCaller' = Nil
    /\ UNCHANGED <<iteration, waiters, holding, putErr, nextId, waited,
                   pristine, discarded>>

----------------------------------------------------------------------------
(* Len *)

\* return pool.connections.Len(): the list is read with no lock taken, in
\* both iterations
LenCall(p) ==
    /\ pc[p] = "idle"
    /\ lenCaller' = p
    /\ failed' = {}
    /\ roundTrip' = RT(p, Nil)
    /\ UNCHANGED <<poolVars, waited, pristine, discarded, released>>

----------------------------------------------------------------------------
Next ==
    \E p \in Procs :
        \/ GetLock(p)
        \/ GetWait(p)
        \/ GetWake(p)
        \/ GetReuse(p)
        \/ GetMake(p)
        \/ GetMade(p)
        \/ PutNil(p)
        \/ PutLock(p)
        \/ PutBody(p)
        \/ CloseEmpty(p)
        \/ CloseBegin(p)
        \/ CloseElemUnlocked(p)
        \/ CloseElemLocked(p)
        \/ LenCall(p)

Spec == Init /\ [][Next]_vars

----------------------------------------------------------------------------
(* Properties *)

Idle == Range(connections)

Held == {holding[p] : p \in Procs} \ {Nil}

Holders == {p \in Procs : holding[p] # Nil}

Blocked == {p \in Procs : pc[p] = "get_wait"}

\* connections that exist: in the list or with a caller, and not closed
LiveConnections == {c \in Idle \cup Held : ~isClosed[c]}

\* C1: the number of connections created and not yet closed (idle plus
\* checked out) is at most MaxNumConnections in every reachable state.
C1_LiveAtMostCeiling == Cardinality(LiveConnections) <= MaxNumConnections

\* C2: on a fresh pool with no Put, no Close and no factory failure so far,
\* no Get has waited before MaxNumConnections Gets have returned, and no
\* more than MaxNumConnections Gets have returned.
C2_BlocksAtCeiling ==
    pristine =>
        /\ Cardinality(Holders) <= MaxNumConnections
        /\ \A p \in Procs :
               (waited[p] \/ pc[p] = "get_wait")
                   => Cardinality(Holders) = MaxNumConnections

\* C3 (its first half): when all MaxNumConnections+1 callers have called Get
\* on a fresh pool and each has either returned or been suspended, exactly
\* one of them is suspended.
C3_ExactlyOneBlocked ==
    (pristine /\ Holders \cup Blocked = Procs) => Cardinality(Blocked) = 1

\* p's Get returns a connection in this step
GetReturns(p) == holding[p] = Nil /\ holding'[p] # Nil

\* C4 as stated: after Put(c, nil) by p, while p does nothing but call Get
\* and no other goroutine takes a step, p's Get neither waits nor calls the
\* factory, and returns c.
C4_RoundTrip ==
    \A p \in Procs :
        roundTrip[p] # Nil =>
            /\ pc[p] \in {"idle", "get_loop"}
            /\ holding[p] \in {Nil, roundTrip[p]}

\* C4 amended: the same, in connection_pool.go only when the list holds no
\* connection other than c (its Put pushes at the back and Get takes the
\* front); in part_000 for every state of the pool.
C4_RoundTripAmended ==
    [][\A p \in Procs :
          ( /\ roundTrip[p] # Nil
            /\ pc[p] = "get_loop"
            /\ iteration = "connection_pool.go" => Idle \subseteq {roundTrip[p]} )
          => /\ pc'[p] \in {"idle", "get_loop"}
             /\ pc'[p] = "idle" => holding'[p] = roundTrip[p]]_vars

\* a round trip has happened: p holds again the connection it released
C4_Witness ==
    \E p \in Procs :
        /\ roundTrip[p] # Nil
        /\ holding[p] = roundTrip[p]
        /\ pc[p] = "idle"

\* p's Put with an error runs its body in this step
PutDiscards(p) == pc[p] = "put" /\ putErr[p] /\ pc'[p] = "idle"

\* C5: Put with an error decrements the counter by exactly one, and the
\* connection it released is never returned by a later Get.
C5_DiscardedNeverReturned ==
    [][\A p \in Procs :
          /\ PutDiscards(p) =>
                 numActiveConnections' = numActiveConnections - 1
          /\ GetReturns(p) => holding'[p] \notin discarded]_vars

\* p's Close returns in this step
CloseReturns(p) == pc[p] = "close_iter" /\ pc'[p] = "idle"

\* C6: when Close returns, every connection that was still in the list has
\* been closed, a failed close included, and Len() is 0.
C6_CloseClosesAll ==
    [][\A p \in Procs :
          CloseReturns(p) =>
              /\ \A c \in Idle : isClosed'[c]
              /\ Len(connections') = 0]_vars

\* p's Get returns the factory's failure in this step
FactoryFails(p) ==
    pc[p] = "get_make" /\ pc'[p] = "idle" /\ holding'[p] = Nil

\* C7: when the factory fails, Get returns an error and no connection, the
\* list and the counter are as before the call, and the next Get finds an
\* empty list below the ceiling: it does not wait and calls the factory.
C7_FactoryFailureNoChange ==
    [][\A p \in Procs :
          FactoryFails(p) =>
              /\ p \in failed'
              /\ connections' = connections
              /\ numActiveConnections' = numActiveConnections
              /\ Len(connections') = 0
              /\ numActiveConnections' < MaxNumConnections]_vars

\* a Get has just returned the factory's error on a pool that already has a
\* connection checked out
C7_Witness ==
    \E p \in failed :
        /\ holding[p] = Nil
        /\ Holders # {}
        /\ numActiveConnections > 0

\* C8: no connection is in the list twice, none is both in the list and with
\* a caller, and no two callers hold the same connection.
C8_NoDoubleBooking ==
    /\ \A i, j \in 1..Len(connections) :
           i # j => connections[i] # connections[j]
    /\ Idle \cap Held = {}
    /\ \A p, q \in Procs :
           (p # q /\ holding[p] # Nil) => holding[p] # holding[q]

\* this step is a turn of the loop of p's Close
CloseTurn(p) ==
    /\ pc[p] = "close_iter"
    /\ cursor'[p] # cursor[p]
    /\ \A q \in Procs \ {p} : pc'[q] = pc[q]

\* C9: a turn of Close leaves every checked-out connection as open or
\* closed as it was.
C9_CloseSparesHeld ==
    [][\A p \in Procs :
          CloseTurn(p) =>
              \A c \in Held : isClosed'[c] = isClosed[c]]_vars

\* p's Get takes a connection from the list in this step
GetReuses(p) ==
    pc[p] = "get_loop" /\ pc'[p] = "idle" /\ Len(connections) > 0

\* C10: a Get that returns a released connection returns the one released
\* earliest among those not returned since.
C10_FifoReuse ==
    [][\A p \in Procs :
          (GetReuses(p) /\ holding'[p] \in Range(released))
              => holding'[p] = Head(released)]_vars

\* C11: while a goroutine's Get is inside MakeConnection it holds the mutex,
\* no other goroutine is inside MakeConnection, and no step another
\* goroutine takes before the factory returns is a step of Get, Put or
\* Close: the pool's state is as the factory call found it.
C11_FactorySerialized ==
    [][\A p \in Procs :
          pc[p] = "get_make" =>
              /\ mutex = p
              /\ \A q \in Procs \ {p} : pc[q] # "get_make"
              /\ pc'[p] = "get_make" => UNCHANGED poolVars]_vars

\* p's Get returns a connection MakeConnection has just created
GetCreates(p) == pc[p] = "get_make" /\ holding'[p] # Nil

\* C12: a Get that creates a connection increments the counter by exactly
\* one, returns the new connection and leaves the list as it was: empty,
\* and without the new connection (Len() is still 0 when Get returns).
C12_CreateLeavesListAlone ==
    [][\A p \in Procs :
          GetCreates(p) =>
              /\ numActiveConnections' = numActiveConnections + 1
              /\ connections' = connections
              /\ holding'[p] \notin Range(connections')
              /\ Len(connections') = 0]_vars

\* this step is p's Close returning at once because the list is empty: the
\* only step that leaves every field of the pool and every goroutine as it
\* was and is not a Len
CloseEmptyReturns ==
    /\ UNCHANGED poolVars
    /\ lenCaller' = Nil

\* C13: when Close returns, whether the list was empty or not when it was
\* called and whether connections are checked out or not, the counter is 0
\* and the list is empty.
C13_CloseResets ==
    [][(CloseEmptyReturns \/ \E p \in Procs : CloseReturns(p)) =>
           /\ numActiveConnections' = 0
           /\ Len(connections') = 0]_vars

\* no goroutine is inside Get, Put or Close
Quiescent ==
    /\ mutex = Nil
    /\ \A p \in Procs : pc[p] \in {"idle", "get_wait"}

\* C14: at every quiescent point the counter is the number of connections
\* in the list plus the number checked out by callers.
C14_CounterCountsConnections ==
    Quiescent =>
        numActiveConnections = Len(connections) + Cardinality(Holders)

\* C15: at every quiescent point the counter is at most MaxNumConnections.
C15_CounterAtMostCeiling ==
    Quiescent => numActiveConnections <= MaxNumConnections

\* a quiescent point after a Put or a Close, with the counter at the ceiling
\* and a Get suspended
C15_Witness ==
    /\ Quiescent
    /\ ~pristine
    /\ numActiveConnections = MaxNumConnections
    /\ waiters # {}

\* C16: in every reachable state the list is at most as long as the counter
\* says.
C16_LenAtMostCounter == Len(connections) <= numActiveConnections

\* close is called on connection c in this step: by a Put with an error or
\* by a turn of the loop of Close
CloseCalledOn(c) ==
    \E p \in Procs :
        \/ PutDiscards(p) /\ holding[p] = c
        \/ CloseTurn(p) /\ cursor[p].conn = c

\* C17: close is called on a connection at most once, a connection is closed
\* only by a Put with an error or by Close, no closed connection is in the
\* list, and Get never returns a closed connection.
C17_ClosedOnce ==
    [][/\ \A c \in Conns : CloseCalledOn(c) => ~isClosed[c]
       /\ \A c \in Conns : isClosed'[c] # isClosed[c] => CloseCalledOn(c)
       /\ \A c \in Range(connections') : ~isClosed'[c]
       /\ \A p \in Procs : GetReturns(p) => ~isClosed[holding'[p]]]_vars

\* C18: a goroutine that is inside Get, Put or Close, or whose Len returns
\* in this step, holds the mutex.
C18_AccessUnderMutex ==
    [][\A p \in Procs :
          ( \/ pc[p] \in {"get_loop", "get_make", "put", "close_iter"}
            \/ lenCaller' = p )
          => mutex = p]_vars

\* C19: the counter is never negative.
C19_CounterNonNegative == numActiveConnections >= 0

\* a quiescent point at which no suspended Get has been signalled and not
\* yet run
Settled ==
    /\ Quiescent
    /\ \A p \in Procs : pc[p] = "get_wait" => p \in waiters

\* C20: at a quiescent point with a Get suspended in Wait and no wake-up
\* pending, the list is empty and the counter is at the ceiling or above.
C20_NoStrandedWaiter ==
    (Settled /\ waiters # {}) => WaitCondition
====
